---------------------------- MODULE Spec2Model ----------------------------
(***************************************************************************)
(* Model of php-serialize-edit (src/src/pse/php_serialize_edit.py): the    *)
(* PHP serialize() codec (PHPUnserializer, PHPSerializer), the query       *)
(* expression parser and the structural editor (Query), and the facade     *)
(* functions php_serialize, php_unserialize and php_modify.                *)
(*                                                                         *)
(* Bytes are sequences of one-character strings.  A Python value is a      *)
(* record with the same fields for every variant, so that any two values   *)
(* can be compared:                                                        *)
(*   t : the Python type ("none", "bool", "int", "float", "bytes", "list", *)
(*       "object" for the (bytes, list) tuple, "other" for anything else)  *)
(*   n : the integer of an int, 0/1 of a bool, the decimal mantissa of a   *)
(*       float                                                             *)
(*   e : the number of decimals of a float (value = s * n / 10^e, with     *)
(*       n % 10 # 0 unless e = 0)                                          *)
(*   s : the sign of a float (1 or -1; -0.0 has s = -1, n = 0), 0 for nan  *)
(*   b : the bytes of a bytes value, the class name of an object           *)
(*   p : the pairs <<key, value>> of a list or of an object's properties   *)
(***************************************************************************)
EXTENDS Integers, Sequences, FiniteSets, TLC

VARIABLES
    pc,         \* which call sequence the client is in
    data,       \* Parser.data of the parser object last used
    current,    \* Parser.current of that parser after the call
    structure,  \* Query.structure
    ret,        \* outcome of the last call
    arg,        \* the value or bytes handed to the last facade call
    log         \* the runs made on the Query so far, oldest first

vars == <<pc, data, current, structure, ret, arg, log>>

-----------------------------------------------------------------------------
\* The element of a one-element set.  Once({F(x) : x \in {e}}) is F(e) with e
\* evaluated once, however often F uses x.
Once(S) == CHOOSE x \in S : TRUE

-----------------------------------------------------------------------------
(* Python values *)

PyNone == [t |-> "none", n |-> 0, e |-> 0, s |-> 1, b |-> <<>>, p |-> <<>>]

PyBool(x) == [t |-> "bool", n |-> IF x THEN 1 ELSE 0, e |-> 0, s |-> 1, b |-> <<>>, p |-> <<>>]

PyInt(k) == [t |-> "int", n |-> k, e |-> 0, s |-> 1, b |-> <<>>, p |-> <<>>]

PyFloat(sign, mant, decs) == [t |-> "float", n |-> mant, e |-> decs, s |-> sign, b |-> <<>>, p |-> <<>>]

PyNan == [t |-> "float", n |-> 0, e |-> 0, s |-> 0, b |-> <<>>, p |-> <<>>]

PyBytes(bs) == [t |-> "bytes", n |-> 0, e |-> 0, s |-> 1, b |-> bs, p |-> <<>>]

PyList(ps) == [t |-> "list", n |-> 0, e |-> 0, s |-> 1, b |-> <<>>, p |-> ps]

PyObject(cls, ps) == [t |-> "object", n |-> 0, e |-> 0, s |-> 1, b |-> cls, p |-> ps]

\* a host value that is none of the above (a str, a dict, a 2-tuple of ints)
PyOther == [t |-> "other", n |-> 0, e |-> 0, s |-> 1, b |-> <<>>, p |-> <<>>]

is_object(v) == v.t = "object"

IsNumber(v) == v.t \in {"bool", "int", "float"}

RECURSIVE Pow10(_)
Pow10(k) == IF k = 0 THEN 1 ELSE 10 * Pow10(k - 1)

\* Python's == on two numbers (bool, int and float compare by numeric value;
\* nan equals nothing)
NumEq(a, b) ==
    /\ a.s # 0
    /\ b.s # 0
    /\ a.s * a.n * Pow10(b.e) = b.s * b.n * Pow10(a.e)

\* Python's == as applied by `key == item_key` and `key != to_delete`
RECURSIVE PyEq(_, _)
PyEq(a, b) ==
    IF IsNumber(a) /\ IsNumber(b) THEN NumEq(a, b)
    ELSE IF a.t # b.t THEN FALSE
    ELSE IF a.t = "bytes" THEN a.b = b.b
    ELSE IF a.t \in {"list", "object"} THEN
        /\ a.b = b.b
        /\ Len(a.p) = Len(b.p)
        /\ \A i \in 1..Len(a.p) :
              PyEq(a.p[i][1], b.p[i][1]) /\ PyEq(a.p[i][2], b.p[i][2])
    ELSE a.t = "none"

-----------------------------------------------------------------------------
(* str(), int() and float() on the bytes the program hands them *)

Digits == <<"0", "1", "2", "3", "4", "5", "6", "7", "8", "9">>

IsDigit(c) == \E i \in 1..10 : Digits[i] = c

DigitVal(c) == (CHOOSE i \in 1..10 : Digits[i] = c) - 1

RECURSIVE NatToBytes(_)
NatToBytes(k) ==
    IF k < 10 THEN <<Digits[k + 1]>>
    ELSE NatToBytes(k \div 10) \o <<Digits[(k % 10) + 1]>>

\* bytes(str(k), "utf-8") for an int k
IntToBytes(k) == IF k < 0 THEN <<"-">> \o NatToBytes(-k) ELSE NatToBytes(k)

RECURSIVE PadNat(_, _)
PadNat(k, width) ==
    IF width = 0 THEN <<>>
    ELSE PadNat(k \div 10, width - 1) \o <<Digits[(k % 10) + 1]>>

\* bytes(str(x), "utf-8") for a float x: the shortest decimal that reads back
\* as x, always with a fractional part (floats here stay within the range
\* that str() prints without an exponent)
FloatToBytes(v) ==
    IF v.s = 0 THEN <<"n", "a", "n">>
    ELSE (IF v.s < 0 THEN <<"-">> ELSE <<>>)
         \o NatToBytes(v.n \div Pow10(v.e))
         \o <<".">>
         \o (IF v.e = 0 THEN <<"0">> ELSE PadNat(v.n % Pow10(v.e), v.e))

\* txt without its leading and trailing whitespace
RECURSIVE Strip(_)
Strip(txt) ==
    IF txt = <<>> THEN txt
    ELSE IF Head(txt) = " " THEN Strip(Tail(txt))
    ELSE IF txt[Len(txt)] = " " THEN Strip(SubSeq(txt, 1, Len(txt) - 1))
    ELSE txt

\* digits with single underscores between them, as int() and float() accept
IsDigitRun(txt) ==
    /\ txt # <<>>
    /\ IsDigit(txt[1])
    /\ IsDigit(txt[Len(txt)])
    /\ \A i \in 1..Len(txt) : IsDigit(txt[i]) \/ txt[i] = "_"
    /\ \A i \in 1..(Len(txt) - 1) : ~(txt[i] = "_" /\ txt[i + 1] = "_")

RECURSIVE DigitsValue(_, _)
DigitsValue(txt, acc) ==
    IF txt = <<>> THEN acc
    ELSE IF Head(txt) = "_" THEN DigitsValue(Tail(txt), acc)
    ELSE DigitsValue(Tail(txt), 10 * acc + DigitVal(Head(txt)))

RECURSIVE CountDigits(_)
CountDigits(txt) ==
    IF txt = <<>> THEN 0
    ELSE (IF Head(txt) = "_" THEN 0 ELSE 1) + CountDigits(Tail(txt))

Unsigned(txt) ==
    IF txt # <<>> /\ Head(txt) \in {"-", "+"} THEN Tail(txt) ELSE txt

\* int(txt): [ok, n]; ok = FALSE is Python's ValueError
int(txt) ==
    LET body == Unsigned(Strip(txt))
        neg == Strip(txt) # <<>> /\ Head(Strip(txt)) = "-"
    IN  IF IsDigitRun(body)
        THEN [ok |-> TRUE,
              n |-> IF neg THEN -DigitsValue(body, 0) ELSE DigitsValue(body, 0)]
        ELSE [ok |-> FALSE, n |-> 0]

\* the float with the given sign, mantissa and decimals, trailing zero
\* decimals removed
RECURSIVE NormFloat(_, _, _)
NormFloat(sign, mant, decs) ==
    IF decs > 0 /\ mant % 10 = 0 THEN NormFloat(sign, mant \div 10, decs - 1)
    ELSE PyFloat(sign, mant, decs)

DotAt(txt) ==
    IF \E i \in 1..Len(txt) : txt[i] = "."
    THEN CHOOSE i \in 1..Len(txt) :
            txt[i] = "." /\ \A j \in 1..(i - 1) : txt[j] # "."
    ELSE 0

IsNanWord(txt) ==
    /\ Len(txt) = 3
    /\ txt[1] \in {"n", "N"}
    /\ txt[2] \in {"a", "A"}
    /\ txt[3] \in {"n", "N"}

\* float(txt): [ok, v]; ok = FALSE is Python's ValueError.  Exact on bytes
\* drawn from digits, sign, dot, underscore, space and the letters of the
\* wire tags (no exponent and no "inf" can be spelled with them).
float(txt) ==
    LET st == Strip(txt)
        sign == IF st # <<>> /\ Head(st) = "-" THEN -1 ELSE 1
        body == Unsigned(st)
        dot == DotAt(body)
        ip == IF dot = 0 THEN body ELSE SubSeq(body, 1, dot - 1)
        fp == IF dot = 0 THEN <<>> ELSE SubSeq(body, dot + 1, Len(body))
        good == /\ (ip = <<>> \/ IsDigitRun(ip))
                /\ (fp = <<>> \/ IsDigitRun(fp))
                /\ ~(ip = <<>> /\ fp = <<>>)
    IN  IF IsNanWord(body) THEN [ok |-> TRUE, v |-> PyNan]
        ELSE IF good
        THEN [ok |-> TRUE,
              v |-> NormFloat(sign,
                              DigitsValue(ip, 0) * Pow10(CountDigits(fp))
                                + DigitsValue(fp, 0),
                              CountDigits(fp))]
        ELSE [ok |-> FALSE, v |-> PyNone]

-----------------------------------------------------------------------------
(* PHPSerializer *)

Encoded(bs) == [ok |-> TRUE, out |-> bs]

\* raise SerializeError
SerializeError == [ok |-> FALSE, out |-> <<>>]

PHPSerializer_string_to_bytes(v) ==
    Encoded(<<"s", ":">> \o IntToBytes(Len(v.b)) \o <<":", "\"">> \o v.b \o <<"\"", ";">>)

PHPSerializer_bool_to_bytes(v) ==
    Encoded(<<"b", ":">> \o IntToBytes(v.n) \o <<";">>)

PHPSerializer_int_to_bytes(v) ==
    Encoded(<<"i", ":">> \o IntToBytes(v.n) \o <<";">>)

PHPSerializer_float_to_bytes(v) ==
    Encoded(<<"d", ":">> \o FloatToBytes(v) \o <<";">>)

RECURSIVE PHPSerializer_to_bytes(_)

\* EMPTY.join([to_bytes(key) + to_bytes(value) for (key, value) in pairs])
RECURSIVE JoinPairs(_)
JoinPairs(ps) ==
    IF ps = <<>> THEN Encoded(<<>>)
    ELSE LET k == PHPSerializer_to_bytes(ps[1][1])
             w == PHPSerializer_to_bytes(ps[1][2])
             rest == JoinPairs(Tail(ps))
         IN  IF k.ok /\ w.ok /\ rest.ok
             THEN Encoded(k.out \o w.out \o rest.out)
             ELSE SerializeError

PHPSerializer_array_to_bytes(v) ==
    LET items == JoinPairs(v.p)
    IN  IF items.ok
        THEN Encoded(<<"a", ":">> \o IntToBytes(Len(v.p)) \o <<":", "{">>
                     \o items.out \o <<"}">>)
        ELSE SerializeError

PHPSerializer_object_to_bytes(v) ==
    LET items == JoinPairs(v.p)
    IN  IF items.ok
        THEN Encoded(<<"O", ":">> \o IntToBytes(Len(v.b)) \o <<":", "\"">> \o v.b
                     \o <<"\"", ":">> \o IntToBytes(Len(v.p)) \o <<":", "{">>
                     \o items.out \o <<"}">>)
        ELSE SerializeError

PHPSerializer_to_bytes(v) ==
    IF v.t = "bytes" THEN PHPSerializer_string_to_bytes(v)
    ELSE IF v.t = "bool" THEN PHPSerializer_bool_to_bytes(v)
    ELSE IF v.t = "int" THEN PHPSerializer_int_to_bytes(v)
    ELSE IF v.t = "float" THEN PHPSerializer_float_to_bytes(v)
    ELSE IF v.t = "list" THEN PHPSerializer_array_to_bytes(v)
    ELSE IF is_object(v) THEN PHPSerializer_object_to_bytes(v)
    ELSE SerializeError

php_serialize(value) == PHPSerializer_to_bytes(value)

-----------------------------------------------------------------------------
(* Parser: the cursor over data.  A parse step takes and returns a record  *)
(*   ok  : FALSE once an exception has been raised                         *)
(*   cur : Parser.current                                                  *)
(*   err : "ParseError" or "ValueError" when ok is FALSE                   *)
(*   pos : ParseError.position (-1 for a ValueError, which has none)       *)
(*   v   : the value decoded so far                                        *)
(*   txt : the bytes last read                                             *)
(*   ps  : the pairs collected so far                                      *)
(* and a step applied to a failed record returns it unchanged: the         *)
(* exception propagates.                                                   *)

At(cur) == [ok |-> TRUE, cur |-> cur, err |-> "", pos |-> 0, v |-> PyNone,
            txt |-> <<>>, ps |-> <<>>]

\* raise ParseError(self.current, ...)
RaiseParseError(cur) ==
    [ok |-> FALSE, cur |-> cur, err |-> "ParseError", pos |-> cur, v |-> PyNone,
     txt |-> <<>>, ps |-> <<>>]

\* a ValueError raised by int(), float(), tuple unpacking or the editor
RaiseValueError(cur) ==
    [ok |-> FALSE, cur |-> cur, err |-> "ValueError", pos |-> -1, v |-> PyNone,
     txt |-> <<>>, ps |-> <<>>]

Min(a, b) == IF a < b THEN a ELSE b

Max(a, b) == IF a > b THEN a ELSE b

\* d[i:j] for i >= 0 (a negative j counts from the end)
PySlice(d, i, j) ==
    LET hi == IF j < 0 THEN Max(Len(d) + j, 0) ELSE Min(j, Len(d))
    IN  SubSeq(d, i + 1, hi)

Parser_end_of_data(d, cur) == cur >= Len(d)

Parser_chunk(d, cur, length) == PySlice(d, cur, cur + length)

\* the position of the first stop byte at or after cur (1-based), 0 if none
FindFrom(d, cur, stop) ==
    IF \E i \in (cur + 1)..Len(d) : d[i] = stop
    THEN CHOOSE i \in (cur + 1)..Len(d) :
            d[i] = stop /\ \A j \in (cur + 1)..(i - 1) : d[j] # stop
    ELSE 0

Parser_read_until(d, r, stop) ==
    IF ~r.ok THEN r
    ELSE LET at == FindFrom(d, r.cur, stop)
         IN  IF at = 0 THEN RaiseValueError(r.cur)
             ELSE [r EXCEPT !.txt = SubSeq(d, r.cur + 1, at - 1), !.cur = at - 1]

Parser_read_bytes(d, r, length) ==
    IF ~r.ok THEN r
    ELSE LET start == Parser_chunk(d, r.cur, length)
         IN  [r EXCEPT !.txt = start, !.cur = r.cur + Len(start)]

Parser_read_must(d, r, expected) ==
    IF ~r.ok THEN r
    ELSE IF Len(expected) > Len(d) - r.cur THEN RaiseParseError(r.cur)
    ELSE IF Parser_chunk(d, r.cur, Len(expected)) # expected THEN RaiseParseError(r.cur)
    ELSE [r EXCEPT !.cur = r.cur + Len(expected)]

\* r with txt replaced by int(txt), kept in v as an int; ValueError otherwise
IntOf(r) ==
    IF ~r.ok THEN r
    ELSE IF int(r.txt).ok THEN [r EXCEPT !.v = PyInt(int(r.txt).n)]
    ELSE RaiseValueError(r.cur)

-----------------------------------------------------------------------------
(* PHPUnserializer *)

PHPUnserializer_string_from_bytes(d, cur) ==
    LET r1 == Parser_read_must(d, At(cur), <<"s">>)
        r2 == Parser_read_must(d, r1, <<":">>)
        r3 == IntOf(Parser_read_until(d, r2, ":"))
        r4 == Parser_read_must(d, r3, <<":">>)
        r5 == Parser_read_must(d, r4, <<"\"">>)
        r6 == Parser_read_bytes(d, r5, r3.v.n)
        r7 == Parser_read_must(d, r6, <<"\"">>)
        r8 == Parser_read_must(d, r7, <<";">>)
    IN  IF r8.ok THEN [r8 EXCEPT !.v = PyBytes(r6.txt)] ELSE r8

PHPUnserializer_int_from_bytes(d, cur) ==
    LET r1 == Parser_read_must(d, At(cur), <<"i">>)
        r2 == Parser_read_must(d, r1, <<":">>)
        r3 == IntOf(Parser_read_until(d, r2, ";"))
    IN  Parser_read_must(d, r3, <<";">>)

PHPUnserializer_decimal_from_bytes(d, cur) ==
    LET r1 == Parser_read_must(d, At(cur), <<"d">>)
        r2 == Parser_read_must(d, r1, <<":">>)
        r3 == Parser_read_until(d, r2, ";")
        r4 == IF ~r3.ok THEN r3
              ELSE IF float(r3.txt).ok THEN [r3 EXCEPT !.v = float(r3.txt).v]
              ELSE RaiseValueError(r3.cur)
    IN  Parser_read_must(d, r4, <<";">>)

\* _bool_from_bytes without the conversion to bool
PHPUnserializer_bool_from_bytes_as_int(d, cur) ==
    LET r1 == Parser_read_must(d, At(cur), <<"b">>)
        r2 == Parser_read_must(d, r1, <<":">>)
        r3 == IntOf(Parser_read_until(d, r2, ";"))
    IN  Parser_read_must(d, r3, <<";">>)

PHPUnserializer_bool_from_bytes(d, cur) ==
    LET r1 == Parser_read_must(d, At(cur), <<"b">>)
        r2 == Parser_read_must(d, r1, <<":">>)
        r3 == IntOf(Parser_read_until(d, r2, ";"))
        r4 == IF r3.ok THEN [r3 EXCEPT !.v = PyBool(r3.v.n # 0)] ELSE r3
    IN  Parser_read_must(d, r4, <<";">>)

PHPUnserializer_null_from_bytes(d, cur) ==
    LET r1 == Parser_read_must(d, At(cur), <<"N">>)
    IN  Parser_read_must(d, r1, <<";">>)

RECURSIVE PHPUnserializer_from_bytes(_, _)

\* [(self.from_bytes(), self.from_bytes()) for _ in range(count)], the pairs
\* added to r.ps
RECURSIVE DecodePairs(_, _, _)
DecodePairs(d, r, count) ==
    IF ~r.ok \/ count <= 0 THEN r
    ELSE LET k == PHPUnserializer_from_bytes(d, r.cur)
             w == PHPUnserializer_from_bytes(d, k.cur)
         IN  IF ~k.ok THEN k
             ELSE IF ~w.ok THEN w
             ELSE DecodePairs(d,
                              [r EXCEPT !.cur = w.cur,
                                        !.ps = Append(r.ps, <<k.v, w.v>>)],
                              count - 1)

PHPUnserializer_array_from_bytes(d, cur) ==
    LET r1 == Parser_read_must(d, At(cur), <<"a">>)
        r2 == Parser_read_must(d, r1, <<":">>)
        r3 == IntOf(Parser_read_until(d, r2, ":"))
        r4 == Parser_read_must(d, r3, <<":">>)
        r5 == Parser_read_must(d, r4, <<"{">>)
        r6 == DecodePairs(d, r5, r3.v.n)
        r7 == Parser_read_must(d, r6, <<"}">>)
    IN  IF r7.ok THEN [At(r7.cur) EXCEPT !.v = PyList(r7.ps)] ELSE r7

PHPUnserializer_object_from_bytes(d, cur) ==
    LET r1 == Parser_read_must(d, At(cur), <<"O">>)
        r2 == Parser_read_must(d, r1, <<":">>)
        r3 == IntOf(Parser_read_until(d, r2, ":"))
        r4 == Parser_read_must(d, r3, <<":">>)
        r5 == Parser_read_must(d, r4, <<"\"">>)
        r6 == Parser_read_bytes(d, r5, r3.v.n)
        r7 == Parser_read_must(d, r6, <<"\"">>)
        r8 == Parser_read_must(d, r7, <<":">>)
        r9 == IntOf(Parser_read_until(d, r8, ":"))
        r10 == Parser_read_must(d, r9, <<":">>)
        r11 == Parser_read_must(d, r10, <<"{">>)
        r12 == DecodePairs(d, r11, r9.v.n)
        r13 == Parser_read_must(d, r12, <<"}">>)
    IN  IF r13.ok THEN [At(r13.cur) EXCEPT !.v = PyObject(r6.txt, r13.ps)] ELSE r13

\* from_bytes raising its ParseError with the cursor moved past the tag byte
PHPUnserializer_from_bytes_past_tag(d, cur) ==
    LET php_type == Parser_chunk(d, cur, 1)
    IN  IF php_type = <<"s">> THEN PHPUnserializer_string_from_bytes(d, cur)
        ELSE IF php_type = <<"i">> THEN PHPUnserializer_int_from_bytes(d, cur)
        ELSE IF php_type = <<"b">> THEN PHPUnserializer_bool_from_bytes(d, cur)
        ELSE IF php_type = <<"N">> THEN PHPUnserializer_null_from_bytes(d, cur)
        ELSE IF php_type = <<"a">> THEN PHPUnserializer_array_from_bytes(d, cur)
        ELSE IF php_type = <<"d">> THEN PHPUnserializer_decimal_from_bytes(d, cur)
        ELSE IF php_type = <<"O">> THEN PHPUnserializer_object_from_bytes(d, cur)
        ELSE RaiseParseError(cur + Len(php_type))

PHPUnserializer_from_bytes(d, cur) ==
    LET php_type == Parser_chunk(d, cur, 1)
    IN  IF php_type = <<"s">> THEN PHPUnserializer_string_from_bytes(d, cur)
        ELSE IF php_type = <<"i">> THEN PHPUnserializer_int_from_bytes(d, cur)
        ELSE IF php_type = <<"b">> THEN PHPUnserializer_bool_from_bytes(d, cur)
        ELSE IF php_type = <<"N">> THEN PHPUnserializer_null_from_bytes(d, cur)
        ELSE IF php_type = <<"a">> THEN PHPUnserializer_array_from_bytes(d, cur)
        ELSE IF php_type = <<"d">> THEN PHPUnserializer_decimal_from_bytes(d, cur)
        ELSE IF php_type = <<"O">> THEN PHPUnserializer_object_from_bytes(d, cur)
        ELSE RaiseParseError(cur)

php_unserialize(d) == PHPUnserializer_from_bytes(d, 0)

-----------------------------------------------------------------------------
(* Query: the expression parser.  The parse records are those of Parser;   *)
(* ps holds the pairs of an array, or the items of a selector.             *)

is_valid_int_start(c) == (Len(c) = 1 /\ IsDigit(c[1])) \/ c = <<"-">>

\* the while loop of _parse_string, from position cur with the bytes read so far
RECURSIVE StringLoop(_, _, _, _)
StringLoop(d, cur, escaping, string) ==
    IF Parser_end_of_data(d, cur) THEN RaiseParseError(cur)
    ELSE IF escaping
        THEN StringLoop(d, cur + 1, FALSE, string \o Parser_chunk(d, cur, 1))
    ELSE IF Parser_chunk(d, cur, 1) = <<"\\">>
        THEN StringLoop(d, cur + 1, TRUE, string)
    ELSE IF Parser_chunk(d, cur, 1) = <<"\"">>
        THEN [At(cur + 1) EXCEPT !.v = PyBytes(string)]
    ELSE StringLoop(d, cur + 1, FALSE, string \o Parser_chunk(d, cur, 1))

Query_parse_string(d, cur) ==
    LET r1 == Parser_read_must(d, At(cur), <<"\"">>)
    IN  IF r1.ok THEN StringLoop(d, r1.cur, FALSE, <<>>) ELSE r1

\* the position after the digits that start at cur
RECURSIVE DigitsEnd(_, _)
DigitsEnd(d, cur) ==
    IF ~Parser_end_of_data(d, cur) /\ IsDigit(d[cur + 1])
    THEN DigitsEnd(d, cur + 1)
    ELSE cur

Query_parse_number(d, cur) ==
    LET minus == Parser_chunk(d, cur, 1) = <<"-">>
        c1 == IF minus THEN cur + 1 ELSE cur
        c2 == DigitsEnd(d, c1)
        number_string == SubSeq(d, cur + 1, c2)
        c3 == DigitsEnd(d, c2 + 1)
        with_decimals == number_string \o <<".">> \o SubSeq(d, c2 + 2, c3)
    IN  IF number_string = <<>> THEN RaiseParseError(c2)
        ELSE IF Parser_chunk(d, c2, 1) # <<".">>
            THEN IF int(number_string).ok
                 THEN [At(c2) EXCEPT !.v = PyInt(int(number_string).n)]
                 ELSE RaiseValueError(c2)
        ELSE IF float(with_decimals).ok
            THEN [At(c3) EXCEPT !.v = float(with_decimals).v]
            ELSE RaiseValueError(c3)

\* the while loop of _parse_selector, with the items read so far in r.ps
RECURSIVE SelectorLoop(_, _)
SelectorLoop(d, r) ==
    LET current_byte == Parser_chunk(d, r.cur, 1)
        item == IF current_byte = <<"\"">> THEN Query_parse_string(d, r.cur)
                ELSE IF is_valid_int_start(current_byte)
                    THEN Query_parse_number(d, r.cur)
                ELSE RaiseParseError(r.cur)
        got == [At(item.cur) EXCEPT !.ps = Append(r.ps, item.v)]
        next_byte == Parser_chunk(d, item.cur, 1)
    IN  IF ~item.ok THEN item
        ELSE IF Parser_end_of_data(d, item.cur) THEN got
        ELSE IF next_byte = <<"/">> THEN SelectorLoop(d, [got EXCEPT !.cur = item.cur + 1])
        ELSE IF next_byte = <<"=">> THEN got
        ELSE RaiseParseError(item.cur)

Query_parse_selector(d, cur) ==
    IF Parser_end_of_data(d, cur) \/ Parser_chunk(d, cur, 1) = <<"=">>
    THEN At(cur)
    ELSE SelectorLoop(d, At(cur))

Query_parse_true(d, cur) ==
    LET r1 == Parser_read_must(d, At(cur), <<"t", "r", "u", "e">>)
    IN  IF r1.ok THEN [r1 EXCEPT !.v = PyBool(TRUE)] ELSE r1

Query_parse_false(d, cur) ==
    LET r1 == Parser_read_must(d, At(cur), <<"f", "a", "l", "s", "e">>)
    IN  IF r1.ok THEN [r1 EXCEPT !.v = PyBool(FALSE)] ELSE r1

Query_parse_null(d, cur) == Parser_read_must(d, At(cur), <<"n", "u", "l", "l">>)

RECURSIVE Query_parse_value(_, _)

\* key = self._parse_value(); self.read_must(":"); value = self._parse_value():
\* the pair in ps
ArrayItem(d, cur) ==
    Once({IF ~sep.ok THEN sep
          ELSE Once({IF value.ok THEN [value EXCEPT !.ps = <<sep.v, value.v>>]
                     ELSE value :
                     value \in {Query_parse_value(d, sep.cur)}}) :
          sep \in {Parser_read_must(d, Query_parse_value(d, cur), <<":">>)}})

\* the while loop of _parse_array, with the pairs read so far in r.ps
RECURSIVE ArrayLoop(_, _)
ArrayLoop(d, r) ==
    IF Parser_end_of_data(d, r.cur) \/ Parser_chunk(d, r.cur, 1) = <<"]">> THEN r
    ELSE Once({IF ~item.ok THEN item
               ELSE IF Parser_chunk(d, item.cur, 1) = <<",">>
                   THEN ArrayLoop(d, [At(item.cur + 1) EXCEPT
                                         !.ps = Append(r.ps, item.ps)])
               ELSE IF Parser_chunk(d, item.cur, 1) # <<"]">>
                   THEN RaiseParseError(item.cur)
               ELSE [At(item.cur) EXCEPT !.ps = Append(r.ps, item.ps)] :
               item \in {ArrayItem(d, r.cur)}})

Query_parse_array(d, cur) ==
    Once({IF ~r1.ok THEN r1
          ELSE Once({IF r3.ok THEN [At(r3.cur) EXCEPT !.v = PyList(r3.ps)] ELSE r3 :
                     r3 \in {Parser_read_must(d, ArrayLoop(d, r1), <<"]">>)}}) :
          r1 \in {Parser_read_must(d, At(cur), <<"[">>)}})

\* _parse_object after class_name = self._parse_string()
ObjectAfterName(d, class_name) ==
    IF ~class_name.ok THEN class_name
    ELSE IF Len(class_name.v.b) = 0 THEN RaiseParseError(class_name.cur)
    ELSE Once({IF ~r3.ok THEN r3
               ELSE Once({IF r4.ok
                          THEN [At(r4.cur) EXCEPT !.v = PyObject(class_name.v.b, r4.v.p)]
                          ELSE r4 :
                          r4 \in {Parser_read_must(d, Query_parse_array(d, r3.cur),
                                                   <<"}">>)}}) :
               r3 \in {Parser_read_must(d, class_name, <<",">>)}})

Query_parse_object(d, cur) ==
    Once({IF ~r1.ok THEN r1
          ELSE Once({ObjectAfterName(d, class_name) :
                     class_name \in {Query_parse_string(d, r1.cur)}}) :
          r1 \in {Parser_read_must(d, At(cur), <<"{">>)}})

Query_parse_value(d, cur) ==
    LET chunk == Parser_chunk(d, cur, 1)
    IN  IF chunk = <<"\"">> THEN Query_parse_string(d, cur)
        ELSE IF chunk = <<"[">> THEN Query_parse_array(d, cur)
        ELSE IF chunk = <<"{">> THEN Query_parse_object(d, cur)
        ELSE IF chunk = <<"t">> THEN Query_parse_true(d, cur)
        ELSE IF chunk = <<"f">> THEN Query_parse_false(d, cur)
        ELSE IF chunk = <<"n">> THEN Query_parse_null(d, cur)
        ELSE IF is_valid_int_start(chunk) THEN Query_parse_number(d, cur)
        ELSE RaiseParseError(cur)

\* _parse_command after selector = self._parse_selector(), for command_id
\* "S": the value in v, the selector in ps
SetCommand(d, selector) ==
    Once({IF ~r3.ok THEN r3
          ELSE Once({IF value.ok THEN [value EXCEPT !.ps = selector.ps] ELSE value :
                     value \in {Query_parse_value(d, r3.cur)}}) :
          r3 \in {Parser_read_must(d, selector, <<"=">>)}})

\* _parse_command after self.read_must(QUERY_COMMAND_SEPARATOR)
CommandAfterSeparator(d, command_id, r2) ==
    IF ~r2.ok THEN [cmd |-> command_id[1], r |-> r2]
    ELSE Once({[cmd |-> command_id[1],
                r |-> IF command_id = <<"S">> THEN SetCommand(d, selector)
                      ELSE selector] :
               selector \in {Query_parse_selector(d, r2.cur)}})

\* (command_id, selector, value) in cmd, r.ps and r.v
Query_parse_command(d) ==
    LET command_id == Parser_chunk(d, 0, 1)
    IN  IF command_id \notin {<<"G">>, <<"S">>, <<"D">>}
        THEN [cmd |-> "", r |-> RaiseParseError(0)]
        ELSE Once({CommandAfterSeparator(d, command_id, r2) :
                   r2 \in {Parser_read_must(d,
                                            Parser_read_must(d, At(0), command_id),
                                            <<":">>)}})

-----------------------------------------------------------------------------
(* Query: the structural editor.  _set and _delete return [ok, v], ok =     *)
(* FALSE being the ValueError they raise; _get returns the value.           *)

Returned(v) == [ok |-> TRUE, v |-> v]

EditError == [ok |-> FALSE, v |-> PyNone]

RECURSIVE Query_set(_, _, _)

\* the for loop of _set over the pairs from index i on: [ok, ps, created]
RECURSIVE SetLoop(_, _, _, _, _, _)
SetLoop(selector, value, pairs, i, modified_data, value_must_be_created) ==
    IF i > Len(pairs)
    THEN [ok |-> TRUE, ps |-> modified_data, created |-> value_must_be_created]
    ELSE IF PyEq(selector[1], pairs[i][1])
        THEN LET item_value == Query_set(Tail(selector), value, pairs[i][2])
             IN  IF item_value.ok
                 THEN SetLoop(selector, value, pairs, i + 1,
                              Append(modified_data, <<pairs[i][1], item_value.v>>),
                              FALSE)
                 ELSE [ok |-> FALSE, ps |-> <<>>, created |-> FALSE]
    ELSE SetLoop(selector, value, pairs, i + 1,
                 Append(modified_data, pairs[i]), value_must_be_created)

\* _set on a list
SetInList(selector, value, pairs) ==
    LET done == SetLoop(selector, value, pairs, 1, <<>>, TRUE)
    IN  IF ~done.ok THEN EditError
        ELSE IF done.created
            THEN Returned(PyList(Append(done.ps,
                     <<selector[1], Query_set(Tail(selector), value, PyList(<<>>)).v>>)))
        ELSE Returned(PyList(done.ps))

\* Query_set returning the property list of an Object without its class name
Query_set_unwrapping(selector, value, struct) ==
    IF selector = <<>> THEN Returned(value)
    ELSE IF struct.t = "list" THEN SetInList(selector, value, struct.p)
    ELSE IF is_object(struct) THEN Query_set(selector, value, PyList(struct.p))
    ELSE EditError

Query_set(selector, value, struct) ==
    IF selector = <<>> THEN Returned(value)
    ELSE IF struct.t = "list" THEN SetInList(selector, value, struct.p)
    ELSE IF is_object(struct)
        THEN LET inner == Query_set(selector, value, PyList(struct.p))
             IN  IF inner.ok THEN Returned(PyObject(struct.b, inner.v.p)) ELSE EditError
    ELSE EditError

\* FirstMatch with a comparison that _set does not make: the key has to_get's
\* type as well
FirstSameType(pairs, to_get) ==
    IF \E i \in 1..Len(pairs) : pairs[i][1].t = to_get.t /\ PyEq(pairs[i][1], to_get)
    THEN CHOOSE i \in 1..Len(pairs) :
            /\ pairs[i][1].t = to_get.t /\ PyEq(pairs[i][1], to_get)
            /\ \A j \in 1..(i - 1) :
                  ~(pairs[j][1].t = to_get.t /\ PyEq(pairs[j][1], to_get))
    ELSE 0

\* the index of the first pair whose key == to_get, 0 if there is none
FirstMatch(pairs, to_get) ==
    IF \E i \in 1..Len(pairs) : PyEq(pairs[i][1], to_get)
    THEN CHOOSE i \in 1..Len(pairs) :
            PyEq(pairs[i][1], to_get) /\ \A j \in 1..(i - 1) : ~PyEq(pairs[j][1], to_get)
    ELSE 0

RECURSIVE Query_get(_, _)

\* Query_get testing the shape of the structure before the selector
Query_get_shape_first(selector, struct) ==
    IF struct.t = "list" /\ selector # <<>> /\ FirstMatch(struct.p, selector[1]) # 0
        THEN Query_get(Tail(selector), struct.p[FirstMatch(struct.p, selector[1])][2])
    ELSE IF is_object(struct) /\ selector # <<>> THEN Query_get(selector, PyList(struct.p))
    ELSE IF selector = <<>> /\ struct.t \in {"list", "object"} THEN struct
    ELSE PyNone

Query_get(selector, struct) ==
    IF selector = <<>> THEN struct
    ELSE IF struct.t = "list" /\ FirstMatch(struct.p, selector[1]) # 0
        THEN Query_get(Tail(selector), struct.p[FirstMatch(struct.p, selector[1])][2])
    ELSE IF is_object(struct) THEN Query_get(selector, PyList(struct.p))
    ELSE PyNone

\* [(key, value) for key, value in pairs if key != to_delete]
RECURSIVE DeleteMatching(_, _)
DeleteMatching(pairs, to_delete) ==
    IF pairs = <<>> THEN <<>>
    ELSE IF PyEq(pairs[1][1], to_delete) THEN DeleteMatching(Tail(pairs), to_delete)
    ELSE <<pairs[1]>> \o DeleteMatching(Tail(pairs), to_delete)

RECURSIVE Query_delete(_, _)

\* the for loop of _delete over the pairs from index i on: [ok, ps]
RECURSIVE DeleteLoop(_, _, _, _)
DeleteLoop(selector, pairs, i, modified) ==
    IF i > Len(pairs) THEN [ok |-> TRUE, ps |-> modified]
    ELSE IF PyEq(pairs[i][1], selector[1])
        THEN LET inner == Query_delete(Tail(selector), pairs[i][2])
             IN  IF inner.ok
                 THEN DeleteLoop(selector, pairs, i + 1,
                                 Append(modified, <<pairs[i][1], inner.v>>))
                 ELSE [ok |-> FALSE, ps |-> <<>>]
    ELSE DeleteLoop(selector, pairs, i + 1, Append(modified, pairs[i]))

\* Query_delete returning a scalar as it is instead of raising
Query_delete_lenient(selector, struct) ==
    IF selector = <<>> THEN Returned(struct)
    ELSE IF struct.t = "list"
        THEN IF Len(selector) = 1
             THEN Returned(PyList(DeleteMatching(struct.p, selector[1])))
             ELSE LET done == DeleteLoop(selector, struct.p, 1, <<>>)
                  IN  IF done.ok THEN Returned(PyList(done.ps)) ELSE EditError
    ELSE IF is_object(struct)
        THEN LET inner == Query_delete(selector, PyList(struct.p))
             IN  IF inner.ok THEN Returned(PyObject(struct.b, inner.v.p)) ELSE EditError
    ELSE Returned(struct)

Query_delete(selector, struct) ==
    IF selector = <<>> THEN Returned(struct)
    ELSE IF struct.t = "list"
        THEN IF Len(selector) = 1
             THEN Returned(PyList(DeleteMatching(struct.p, selector[1])))
             ELSE LET done == DeleteLoop(selector, struct.p, 1, <<>>)
                  IN  IF done.ok THEN Returned(PyList(done.ps)) ELSE EditError
    ELSE IF is_object(struct)
        THEN LET inner == Query_delete(selector, PyList(struct.p))
             IN  IF inner.ok THEN Returned(PyObject(struct.b, inner.v.p)) ELSE EditError
    ELSE EditError

-----------------------------------------------------------------------------
(* Query.run and the facade *)

\* what a call gave back: a value, bytes, or the exception it raised
\* (stage: "unserialize", "parse", "edit" or "serialize")
NoReturn == [kind |-> "none", stage |-> "", v |-> PyNone, out |-> <<>>, pos |-> -1]

ReturnValue(v) == [kind |-> "value", stage |-> "", v |-> v, out |-> <<>>, pos |-> -1]

ReturnBytes(bs) == [kind |-> "bytes", stage |-> "", v |-> PyNone, out |-> bs, pos |-> -1]

Raised(kind, stage, pos) == [kind |-> kind, stage |-> stage, v |-> PyNone, out |-> <<>>, pos |-> pos]

\* RunParsed storing the result of a Delete in the Query as it stores that of
\* a Set
RunParsed_storing_delete(c, struct) ==
    LET selector == c.r.ps
        value == c.r.v
        parsed == [ret |-> NoReturn, structure |-> struct, current |-> c.r.cur,
                   cmd |-> c.cmd, selector |-> selector, value |-> value]
    IN  IF ~c.r.ok
        THEN [parsed EXCEPT !.ret = Raised(c.r.err, "parse", c.r.pos),
                            !.cmd = "", !.selector = <<>>]
        ELSE IF c.cmd = "G"
            THEN [parsed EXCEPT !.ret = ReturnValue(Query_get(selector, struct))]
        ELSE Once({IF done.ok
                   THEN [parsed EXCEPT !.ret = ReturnValue(done.v),
                                       !.structure = done.v]
                   ELSE [parsed EXCEPT !.ret = Raised("ValueError", "edit", -1)] :
                   done \in {IF c.cmd = "S" THEN Query_set(selector, value, struct)
                             ELSE Query_delete(selector, struct)}})

\* Query.run(expression) on a Query whose structure is struct, after
\* _parse_command returned or raised c:
\* [ret, structure, current, cmd, selector, value]
RunParsed(c, struct) ==
    LET selector == c.r.ps
        value == c.r.v
        parsed == [ret |-> NoReturn, structure |-> struct, current |-> c.r.cur,
                   cmd |-> c.cmd, selector |-> selector, value |-> value]
    IN  IF ~c.r.ok
        THEN [parsed EXCEPT !.ret = Raised(c.r.err, "parse", c.r.pos),
                            !.cmd = "", !.selector = <<>>]
        ELSE IF c.cmd = "S"
            THEN Once({IF done.ok
                       THEN [parsed EXCEPT !.ret = ReturnValue(done.v),
                                           !.structure = done.v]
                       ELSE [parsed EXCEPT !.ret = Raised("ValueError", "edit", -1)] :
                       done \in {Query_set(selector, value, struct)}})
        ELSE IF c.cmd = "G"
            THEN [parsed EXCEPT !.ret = ReturnValue(Query_get(selector, struct))]
        ELSE Once({IF done.ok
                   THEN [parsed EXCEPT !.ret = ReturnValue(done.v)]
                   ELSE [parsed EXCEPT !.ret = Raised("ValueError", "edit", -1)] :
                   done \in {Query_delete(selector, struct)}})

Query_run(expression, struct) ==
    Once({RunParsed(c, struct) : c \in {Query_parse_command(expression)}})

\* php_modify(d, expression), after php_unserialize returned or raised
\* unserialized
ModifyUnserialized(unserialized, expression) ==
    IF ~unserialized.ok
    THEN Raised(unserialized.err, "unserialize", unserialized.pos)
    ELSE Once({IF modified.ret.kind # "value" THEN modified.ret
               ELSE Once({IF serialized.ok THEN ReturnBytes(serialized.out)
                          ELSE Raised("SerializeError", "serialize", -1) :
                          serialized \in {php_serialize(modified.ret.v)}}) :
               modified \in {Query_run(expression, unserialized.v)}})

\* php_modify(d, expression): what it returns or raises
php_modify(d, expression) ==
    Once({ModifyUnserialized(unserialized, expression) :
          unserialized \in {php_unserialize(d)}})

-----------------------------------------------------------------------------
(* The inputs of the calls *)

\* how many runs are made on one Query
MaxRuns == 2

WireAlphabet ==
    { "s", "i", "b", "N", "a", "O", "d", ":", ";", "{", "}", "\"",
      "0", "1", "2", "-", "+", " ", "_", ".", "x" }

ExpressionAlphabet ==
    { "G", "S", "D", ":", "=", "/", "\"", "\\", "[", "]", "{", "}", ",",
      "-", ".", "0", "1", "a", "t", "n", "f", " ", "x" }

\* bs, its proper prefixes, and bs with one byte replaced by, or one byte
\* inserted from, the alphabet
Damaged(bs, alphabet) ==
    {bs}
    \cup {SubSeq(bs, 1, k) : k \in 0..(Len(bs) - 1)}
    \cup {[bs EXCEPT ![i] = c] : i \in 1..Len(bs), c \in alphabet}
    \cup {SubSeq(bs, 1, k) \o <<c>> \o SubSeq(bs, k + 1, Len(bs)) :
             k \in 0..Len(bs), c \in alphabet}

\* Wire texts as PHP serialize() writes them: the inputs of test_php_unserialize
\* and test_idempotence in kind, one or more for every type tag.
WireValid ==
    { <<"N", ";">>,  \* N;
      <<"b", ":", "0", ";">>,  \* b:0;
      <<"b", ":", "1", ";">>,  \* b:1;
      <<"i", ":", "0", ";">>,  \* i:0;
      <<"i", ":", "-", "1", ";">>,  \* i:-1;
      <<"i", ":", "1", "2", ";">>,  \* i:12;
      <<"d", ":", "1", ".", "5", ";">>,  \* d:1.5;
      <<"d", ":", "-", "0", ".", "5", ";">>,  \* d:-0.5;
      <<"s", ":", "0", ":", "\"", "\"", ";">>,  \* s:0:"";
      <<"s", ":", "2", ":", "\"", "a", ";", "\"", ";">>,  \* s:2:"a;";
      <<"a", ":", "0", ":", "{", "}">>,  \* a:0:{}
      <<"a", ":", "1", ":", "{", "i", ":", "0", ";", "s", ":", "1", ":", "\"", "a", "\"", ";", "}">>,  \* a:1:{i:0;s:1:"a";}
      <<"a", ":", "2", ":", "{", "i", ":", "0", ";", "N", ";", "i", ":", "0", ";", "b", ":", "1", ";", "}">>,  \* a:2:{i:0;N;i:0;b:1;}
      <<"a", ":", "1", ":", "{", "i", ":", "1", ";", "a", ":", "1", ":", "{", "d", ":", "1", ".", "0", ";", "i", ":", "2", ";", "}", "}">>,  \* a:1:{i:1;a:1:{d:1.0;i:2;}}
      <<"O", ":", "1", ":", "\"", "A", "\"", ":", "1", ":", "{", "s", ":", "1", ":", "\"", "a", "\"", ";", "i", ":", "1", ";", "}">>,  \* O:1:"A":1:{s:1:"a";i:1;}
      <<"O", ":", "1", ":", "\"", "A", "\"", ":", "0", ":", "{", "}">> }  \* O:1:"A":0:{}

\* The serialized data handed to php_modify.
ModifyWire ==
    { <<"i", ":", "5", ";">>,  \* i:5;
      <<"a", ":", "2", ":", "{", "i", ":", "0", ";", "i", ":", "0", ";", "i", ":", "1", ";", "i", ":", "1", ";", "}">>,  \* a:2:{i:0;i:0;i:1;i:1;}
      <<"a", ":", "2", ":", "{", "b", ":", "1", ";", "i", ":", "0", ";", "i", ":", "2", ";", "i", ":", "1", ";", "}">>,  \* a:2:{b:1;i:0;i:2;i:1;}
      <<"O", ":", "1", ":", "\"", "A", "\"", ":", "1", ":", "{", "s", ":", "1", ":", "\"", "a", "\"", ";", "i", ":", "1", ";", "}">>,  \* O:1:"A":1:{s:1:"a";i:1;}
      <<"a", ":", "1", ":", "{", "i", ":", "1", ";", "N", ";", "}">> }  \* a:1:{i:1;N;}

\* Selectors of the expressions run on a Query: empty, one and two items, int,
\* string and float items.
SelectorTexts ==
    { <<>>,  \* 
      <<"1">>,  \* 1
      <<"\"", "a", "\"">>,  \* "a"
      <<"1", "/", "2">>,  \* 1/2
      <<"1", "/", "\"", "a", "\"">>,  \* 1/"a"
      <<"1", ".", "0">> }  \* 1.0

\* Values of the Set expressions run on a Query.
ValueTexts ==
    { <<"3">>,  \* 3
      <<"n", "u", "l", "l">>,  \* null
      <<"[", "\"", "a", "\"", ":", "t", "r", "u", "e", "]">> }  \* ["a":true]

\* Expressions of the grammar, in the kind of test_valid and test_query.
ExpressionBase ==
    { <<"G", ":">>,  \* G:
      <<"G", ":", "1">>,  \* G:1
      <<"G", ":", "-", "1", "/", "\"", "a", "\"">>,  \* G:-1/"a"
      <<"D", ":", "\"", "a", "\\", "\"", "\"">>,  \* D:"a(backslash)""
      <<"D", ":", "1", ".", "5", "/", "2">>,  \* D:1.5/2
      <<"S", ":", "=", "2">>,  \* S:=2
      <<"S", ":", "1", "=", "-", "2", ".", "5">>,  \* S:1=-2.5
      <<"S", ":", "\"", "a", "\"", "/", "1", "=", "\"", "b", "\"">>,  \* S:"a"/1="b"
      <<"S", ":", "=", "[", "1", ":", "2", ",", "\"", "a", "\"", ":", "[", "]", "]">>,  \* S:=[1:2,"a":[]]
      <<"S", ":", "1", "=", "t", "r", "u", "e">>,  \* S:1=true
      <<"S", ":", "=", "f", "a", "l", "s", "e">>,  \* S:=false
      <<"S", ":", "=", "n", "u", "l", "l">>,  \* S:=null
      <<"S", ":", "=", "{", "\"", "A", "\"", ",", "[", "1", ":", "2", "]", "}">>,  \* S:={"A",[1:2]}
      <<"D", ":", "-", "1", "2">> }  \* D:-12

\* Expressions outside the grammar: those of test_invalid, and more.
ExpressionInvalid ==
    { <<"G", "=", "1", "2", "3">>,  \* G=123
      <<"G", ":", "1", "2", "3", ".", "a", "b", "c">>,  \* G:123.abc
      <<"S", ":", "1", "2", "3", "=", "a", "b", "c">>,  \* S:123=abc
      <<"S", ":", "k", "e", "y", ":", "v", "a", "l", "u", "e">>,  \* S:key:value
      <<"D", ":", "a", "b", "c", ".", "d", "e", "f">>,  \* D:abc.def
      <<"D", ":", "1", "2", "3", " ", "4", "5", "6">>,  \* D:123 456
      <<"G", ":", "1", "=", "2">>,  \* G:1=2
      <<"S", ":", "=", "1", " ", "2">>,  \* S:=1 2
      <<"G", ":", "-">>,  \* G:-
      <<"S", ":", "=", "-">>,  \* S:=-
      <<"G", ":", "\"", "a", "b">>,  \* G:"ab
      <<"G", ":", "\"", "a", "b", "\\">>,  \* G:"ab(backslash)
      <<"X", ":", "1">>,  \* X:1
      <<>> }  \* 


\* the data handed to php_unserialize
\* Wire texts whose header declares a count that the body does not hold, and
\* one with bytes after the value
WireMiscounted ==
    { <<"a", ":", "-", "1", ":", "{", "}">>,  \* a:-1:{}
      <<"O", ":", "1", ":", "\"", "A", "\"", ":", "-", "1", ":", "{", "}">>,  \* O:1:"A":-1:{}
      <<"a", ":", "2", ":", "{", "i", ":", "0", ";", "i", ":", "0", ";", "}">>,  \* a:2:{i:0;i:0;}
      <<"a", ":", "0", ":", "{", "i", ":", "0", ";", "i", ":", "0", ";", "}">>,  \* a:0:{i:0;i:0;}
      <<"i", ":", "1", ";", "x", "x">> }  \* i:1;xx

WireInputs == WireMiscounted \cup UNION {Damaged(bs, WireAlphabet) : bs \in WireValid}

\* the expressions run once on Query([]), as test_valid and test_invalid do
ExpressionInputs ==
    ExpressionInvalid
    \cup UNION {Damaged(bs, ExpressionAlphabet) : bs \in ExpressionBase}

\* the expressions run in sequence on a Query
EditExpressions ==
    {<<c, ":">> \o sel : c \in {"G", "D"}, sel \in SelectorTexts}
    \cup {<<"S", ":">> \o sel \o <<"=">> \o val : sel \in SelectorTexts, val \in ValueTexts}

PyStr(c) == PyBytes(<<c>>)

\* the structures a Query is built on
QueryTrees ==
    { PyList(<<>>),
      PyInt(5),
      PyNone,
      PyList(<< <<PyInt(0), PyInt(0)>>, <<PyInt(1), PyInt(1)>> >>),
      PyList(<< <<PyInt(1), PyInt(10)>>, <<PyInt(1), PyInt(20)>>, <<PyInt(2), PyInt(30)>> >>),
      PyList(<< <<PyBool(TRUE), PyInt(10)>>, <<PyInt(1), PyInt(20)>> >>),
      PyList(<< <<PyFloat(1, 1, 0), PyInt(10)>>, <<PyStr("1"), PyInt(20)>> >>),
      PyList(<< <<PyStr("a"), PyInt(10)>>, <<PyStr("a"), PyNone>> >>),
      PyList(<< <<PyInt(1), PyList(<< <<PyStr("a"), PyInt(10)>>, <<PyInt(2), PyInt(11)>> >>)>>,
                <<PyInt(1), PyInt(7)>> >>),
      PyList(<< <<PyInt(1), PyObject(<<"A">>, << <<PyInt(2), PyInt(10)>>,
                                                 <<PyInt(2), PyInt(11)>> >>)>>,
                <<PyInt(1), PyList(<<>>)>> >>),
      PyObject(<<"A">>, << <<PyStr("a"), PyInt(1)>>,
                           <<PyInt(1), PyObject(<<"B">>, << <<PyInt(2), PyInt(3)>> >>)>> >>),
      PyList(<< <<PyInt(1), PyObject(<<"A">>, << <<PyStr("a"), PyInt(9)>>,
                                                 <<PyStr("a"), PyInt(8)>> >>)>> >>) }

\* the values handed to php_serialize: those of QueryTrees, every scalar
\* variant, and values that hold something php_serialize does not know
SerializeTrees ==
    QueryTrees
    \cup { PyBool(TRUE), PyBool(FALSE), PyInt(-12), PyFloat(1, 15, 1), PyFloat(-1, 0, 0),
           PyStr("a"), PyBytes(<<>>), PyOther,
           PyBytes(<<"\"", ";", "a">>),
           PyObject(<<>>, << <<PyBool(FALSE), PyStr(":")>> >>),
           PyList(<< <<PyInt(1), PyNone>> >>),
           PyList(<< <<PyNone, PyInt(1)>> >>),
           PyObject(<<"A">>, << <<PyStr("a"), PyNone>> >>),
           PyList(<< <<PyInt(1), PyOther>> >>),
           PyList(<< <<PyInt(1), PyList(<< <<PyStr("a"), PyOther>> >>)>> >>),
           PyList(<< <<PyList(<< <<PyInt(1), PyInt(2)>> >>), PyBool(TRUE)>> >>) }

-----------------------------------------------------------------------------
(* The client: one of                                                      *)
(*   php_unserialize(d), then php_serialize of what it returned            *)
(*   php_serialize(value), then php_unserialize of what it returned        *)
(*   Query(tree), then up to MaxRuns calls of run(expression)              *)
(*   Query([]).run(expression)                                             *)
(*   php_modify(d, expression)                                             *)

NoArg == [tree |-> PyNone, wire |-> <<>>, expression |-> <<>>]

Init ==
    /\ pc = "idle"
    /\ data = <<>>
    /\ current = 0
    /\ structure = PyNone
    /\ ret = NoReturn
    /\ arg = NoArg
    /\ log = <<>>

\* what php_unserialize(d) leaves: the value or the exception, and the cursor
Unserialized(d) ==
    \E r \in {php_unserialize(d)} :
        /\ data' = d
        /\ current' = r.cur
        /\ ret' = IF r.ok THEN ReturnValue(r.v)
                  ELSE Raised(r.err, "unserialize", r.pos)

\* what php_serialize(value) leaves: the bytes or the exception
Serialized(value) ==
    \E r \in {php_serialize(value)} :
        ret' = IF r.ok THEN ReturnBytes(r.out)
               ELSE Raised("SerializeError", "serialize", -1)

\* php_unserialize(d)
Unserialize ==
    /\ pc = "idle"
    /\ pc' = "unserialized"
    /\ \E d \in WireInputs :
          /\ Unserialized(d)
          /\ arg' = [NoArg EXCEPT !.wire = d]
    /\ UNCHANGED <<structure, log>>

\* php_serialize(php_unserialize(d)), the second call
SerializeBack ==
    /\ pc = "unserialized"
    /\ ret.kind = "value"
    /\ pc' = "round_trip"
    /\ Serialized(ret.v)
    /\ arg' = [arg EXCEPT !.tree = ret.v]
    /\ UNCHANGED <<data, current, structure, log>>

\* php_serialize(value)
Serialize ==
    /\ pc = "idle"
    /\ pc' = "serialized"
    /\ \E value \in SerializeTrees :
          /\ Serialized(value)
          /\ arg' = [NoArg EXCEPT !.tree = value]
    /\ UNCHANGED <<data, current, structure, log>>

\* php_unserialize(php_serialize(value)), the second call
UnserializeBack ==
    /\ pc = "serialized"
    /\ ret.kind = "bytes"
    /\ pc' = "read_back"
    /\ Unserialized(ret.out)
    /\ arg' = [arg EXCEPT !.wire = ret.out]
    /\ UNCHANGED <<structure, log>>

\* Query(tree)
NewQuery ==
    /\ pc = "idle"
    /\ pc' = "query"
    /\ \E tree \in QueryTrees :
          /\ structure' = tree
          /\ arg' = [NoArg EXCEPT !.tree = tree]
    /\ data' = <<>>
    /\ current' = 0
    /\ UNCHANGED <<ret, log>>

\* what Query.run(expression) leaves in a Query holding struct, and its entry
\* in the log of runs
Ran(expression, struct) ==
    \E done \in {Query_run(expression, struct)} :
        /\ data' = expression
        /\ current' = done.current
        /\ structure' = done.structure
        /\ ret' = done.ret
        /\ log' = Append(log, [expression |-> expression, cmd |-> done.cmd,
                               selector |-> done.selector, value |-> done.value,
                               before |-> struct, ret |-> done.ret])

\* query.run(expression) on the Query built by NewQuery
Run ==
    /\ pc = "query"
    /\ Len(log) < MaxRuns
    /\ \E expression \in EditExpressions : Ran(expression, structure)
    /\ UNCHANGED <<pc, arg>>

\* Query([]).run(expression)
RunOnEmpty ==
    /\ pc = "idle"
    /\ pc' = "ran"
    /\ \E expression \in ExpressionInputs :
          /\ Ran(expression, PyList(<<>>))
          /\ arg' = [NoArg EXCEPT !.tree = PyList(<<>>), !.expression = expression]

\* php_modify(d, expression)
Modify ==
    /\ pc = "idle"
    /\ pc' = "modified"
    /\ \E d \in ModifyWire, expression \in EditExpressions :
          /\ ret' = php_modify(d, expression)
          /\ arg' = [NoArg EXCEPT !.wire = d, !.expression = expression]
    /\ UNCHANGED <<data, current, structure, log>>

Next ==
    \/ Unserialize
    \/ SerializeBack
    \/ Serialize
    \/ UnserializeBack
    \/ NewQuery
    \/ Run
    \/ RunOnEmpty
    \/ Modify

Spec == Init /\ [][Next]_vars

-----------------------------------------------------------------------------
(* Properties of the codec *)

\* C1: for every byte string b that php_unserialize accepts,
\* php_serialize(php_unserialize(b)) returns b byte for byte.
RoundTripIsIdentity ==
    pc = "round_trip" => ret = ReturnBytes(data)

\* v is built only from None, bool, int, float, bytes, list and the
\* (class name, list) tuple
RECURSIVE OnlyValues(_)
OnlyValues(v) ==
    /\ v.t # "other"
    /\ \A i \in 1..Len(v.p) : OnlyValues(v.p[i][1]) /\ OnlyValues(v.p[i][2])

\* C7: php_serialize succeeds on every tree built only from the seven
\* variants and fails only on a tree that holds something else; Null
\* encodes as N;
SerializeTotalOnValues ==
    pc = "serialized" =>
        /\ (ret.kind = "bytes") = OnlyValues(arg.tree)
        /\ arg.tree = PyNone => ret = ReturnBytes(<<"N", ";">>)

\* C8: php_unserialize returns a value only when it read its whole input,
\* and every other input fails with ParseError at a position of the input.
UnserializeWholeOrParseError ==
    pc = "unserialized" =>
        /\ ret.kind = "value" => current = Len(data)
        /\ ret.kind # "value" => ret.kind = "ParseError" /\ ret.pos \in 0..Len(data)

-----------------------------------------------------------------------------
(* Properties of the expression parser *)

\* C9: an expression is accepted only when the command grammar consumes it
\* entirely: when its parsing raises nothing, the cursor is at its end.
AcceptedExpressionIsConsumed ==
    (Len(log) > 0 /\ ret.stage # "parse") => current = Len(data)

\* C10: an expression whose parsing fails, fails with ParseError carrying a
\* byte offset of the expression, never with another exception.
MalformedExpressionIsParseError ==
    (Len(log) > 0 /\ ret.stage = "parse") =>
        ret.kind = "ParseError" /\ ret.pos \in 0..Len(data)

-----------------------------------------------------------------------------
(* Properties of the editor, over the runs in the log *)

\* a and b are the same variant with the same value
SameKey(a, b) == a.t = b.t /\ PyEq(a, b)

\* the indices of the pairs whose key is the same variant and value as k
SameKeyAt(pairs, k) == {i \in 1..Len(pairs) : SameKey(pairs[i][1], k)}

\* run number i applied cmd with a selector of n segments to an Array and
\* returned
Applied(i, cmd, n) ==
    /\ log[i].cmd = cmd
    /\ log[i].ret.kind = "value"
    /\ Len(log[i].selector) = n
    /\ log[i].before.t = "list"

\* run i was a Set that returned and run i + 1 a Get with the same selector
SetThenGet(i) ==
    /\ log[i].cmd = "S"
    /\ log[i].ret.kind = "value"
    /\ log[i + 1].cmd = "G"
    /\ log[i + 1].selector = log[i].selector

\* C2: when Set(s, v, T) succeeds, Get(s, Set(s, v, T)) is v.
SetThenGetReturnsValue ==
    \A i \in 1..(Len(log) - 1) :
        SetThenGet(i) => log[i + 1].ret = ReturnValue(log[i].value)

\* a Set then Get of two segments on an Array with several pairs under the
\* first segment, one holding an Object and one an Array where Set had to
\* create the second segment
SetThenGetOnDuplicatesObjectAndCreatedPath ==
    /\ Len(log) = 2
    /\ SetThenGet(1)
    /\ Applied(1, "S", 2)
    /\ \E i, j \in SameKeyAt(log[1].before.p, log[1].selector[1]) :
          /\ i < j
          /\ is_object(log[1].before.p[i][2])
          /\ log[1].before.p[j][2] = PyList(<<>>)
          /\ log[2].before.p[j][2] =
                PyList(<< <<log[1].selector[2], log[1].value>> >>)
    /\ log[1].value # PyNone

\* the pairs whose key is not the same variant and value as k, in order
RECURSIVE WithoutKey(_, _)
WithoutKey(pairs, k) ==
    IF pairs = <<>> THEN <<>>
    ELSE IF SameKey(pairs[1][1], k) THEN WithoutKey(Tail(pairs), k)
    ELSE <<pairs[1]>> \o WithoutKey(Tail(pairs), k)

\* C3: Delete with a one-segment selector [k] on an Array removes every pair
\* whose key equals k and returns the other pairs, in order and unchanged.
DeleteRemovesEveryPairOfKey ==
    \A i \in 1..Len(log) :
        Applied(i, "D", 1) =>
            log[i].ret.v = PyList(WithoutKey(log[i].before.p, log[i].selector[1]))

\* the value Set stores under a created key: v itself, or the chain of
\* single-pair arrays down the rest of the selector
RECURSIVE Chain(_, _)
Chain(selector, v) ==
    IF selector = <<>> THEN v
    ELSE PyList(<< <<selector[1], Chain(Tail(selector), v)>> >>)

\* C4: Set with selector [k1..kn] on an Array with no pair of key k1 returns
\* the Array's pairs, unchanged and in order, followed by one pair
\* (k1, chain of single-pair arrays down to the value).
SetAppendsMissingKey ==
    \A i \in 1..Len(log) :
        \A n \in 1..Len(log[i].selector) :
            (/\ Applied(i, "S", n)
             /\ SameKeyAt(log[i].before.p, log[i].selector[1]) = {}) =>
                log[i].ret.v =
                    PyList(Append(log[i].before.p,
                                  <<log[i].selector[1],
                                    Chain(Tail(log[i].selector), log[i].value)>>))

\* C5: a selector segment matches a pair key only when both are the same
\* variant with the same value: Get with a one-segment selector on an Array
\* returns the value of the first pair of that very key, None if there is
\* none.
GetMatchesSameVariantOnly ==
    \A i \in 1..Len(log) :
        Applied(i, "G", 1) =>
            LET same == SameKeyAt(log[i].before.p, log[i].selector[1])
            IN  log[i].ret.v =
                    IF same = {} THEN PyNone
                    ELSE log[i].before.p[CHOOSE j \in same : \A k \in same : j <= k][2]

\* C6: Set on an Array with several pairs of key selector[0] replaces the
\* value of the first of them only: every later one keeps its value.
SetReplacesFirstPairOnly ==
    \A i \in 1..Len(log) :
        \A n \in 1..Len(log[i].selector) :
            Applied(i, "S", n) =>
                \A j, k \in SameKeyAt(log[i].before.p, log[i].selector[1]) :
                    j < k => log[i].ret.v.p[k] = log[i].before.p[k]

-----------------------------------------------------------------------------
(* Properties of Query.run over several runs *)

\* C11: no state is kept from one run to the next: every run on a Query built
\* on tree T returns what its expression returns on T, whatever was run
\* before.
RunIsIndependentOfEarlierRuns ==
    pc = "query" =>
        \A i \in 1..Len(log) : log[i].ret = Query_run(log[i].expression, arg.tree).ret

-----------------------------------------------------------------------------
(* Properties of the counts in the wire format *)

\* the count that the header of the array or object at the start of d
\* declares
DeclaredCount(d) ==
    IF d[1] = "a" THEN int(Parser_read_until(d, At(2), ":").txt).n
    ELSE LET size == Parser_read_until(d, At(2), ":")
             name == Parser_read_bytes(d, At(size.cur + 2), int(size.txt).n)
         IN  int(Parser_read_until(d, At(name.cur + 2), ":").txt).n

\* C12: when php_unserialize accepts an array or an object, the decoded
\* Array/Object has as many pairs as its header declares; a header with
\* another count (negative included) is rejected.
DecodedPairsMatchDeclaredCount ==
    (pc = "unserialized" /\ ret.kind = "value" /\ ret.v.t \in {"list", "object"}) =>
        Len(ret.v.p) = DeclaredCount(data)

-----------------------------------------------------------------------------
(* Properties of Get *)

\* tree is neither an Array nor an Object
IsScalar(tree) == tree.t \notin {"list", "object"}

\* the first pair of pairs whose key is the same variant and value as k
FirstSameKey(pairs, k) ==
    pairs[CHOOSE j \in SameKeyAt(pairs, k) : \A i \in SameKeyAt(pairs, k) : j <= i]

\* following selector in tree, through the first pair of each key and
\* through Objects into their properties, ends at a missing key or at a
\* scalar while segments remain
RECURSIVE PathIsAbsent(_, _)
PathIsAbsent(selector, tree) ==
    /\ selector # <<>>
    /\ \/ IsScalar(tree)
       \/ SameKeyAt(tree.p, selector[1]) = {}
       \/ PathIsAbsent(Tail(selector), FirstSameKey(tree.p, selector[1])[2])

\* C13: Get never fails, and it returns Null when the Array has no pair
\* whose key equals the segment or when a scalar is reached while segments
\* remain.
GetReturnsNullWhenAbsent ==
    \A i \in 1..Len(log) :
        log[i].cmd = "G" =>
            /\ log[i].ret.kind = "value"
            /\ PathIsAbsent(log[i].selector, log[i].before) => log[i].ret.v = PyNone

-----------------------------------------------------------------------------
(* Properties of the editor on Objects *)

\* run number i had a selector of one segment or more and acted on an Object
OnObject(i) == log[i].selector # <<>> /\ is_object(log[i].before)

\* what a Set or Delete returns on Object(c, P) when it returns or raises
\* edited on Array(P): the edited pairs under the class name c
Rewrapped(c, edited) ==
    IF edited.ok THEN ReturnValue(PyObject(c, edited.v.p))
    ELSE Raised("ValueError", "edit", -1)

\* C14: the class name of an Object is transparent to addressing and is
\* kept: with a non-empty selector s, Get(s, Object(c, P)) = Get(s, Array(P)),
\* Set(s, v, Object(c, P)) = Object(c, Set(s, v, Array(P))) and
\* Delete(s, Object(c, P)) = Object(c, Delete(s, Array(P))).
ObjectIsTransparent ==
    \A i \in 1..Len(log) :
        OnObject(i) =>
            LET c == log[i].before.b
                P == PyList(log[i].before.p)
            IN  /\ log[i].cmd = "G" =>
                      log[i].ret = ReturnValue(Query_get(log[i].selector, P))
                /\ log[i].cmd = "S" =>
                      log[i].ret = Rewrapped(c, Query_set(log[i].selector, log[i].value, P))
                /\ log[i].cmd = "D" =>
                      log[i].ret = Rewrapped(c, Query_delete(log[i].selector, P))

\* a Set of two segments changed an Object and a Delete then changed the
\* Object the Set left
SetAndDeleteChangedAnObject ==
    /\ Len(log) = 2
    /\ OnObject(1) /\ OnObject(2)
    /\ log[1].cmd = "S" /\ Len(log[1].selector) = 2
    /\ log[2].cmd = "D"
    /\ log[1].ret.kind = "value" /\ log[1].ret.v # log[1].before
    /\ log[2].ret.kind = "value" /\ log[2].ret.v # log[2].before
    /\ log[2].ret.v.b = log[1].before.b

-----------------------------------------------------------------------------
(* Properties of the editor on scalars *)

\* Query.structure after run number i
After(i) == IF i < Len(log) THEN log[i + 1].before ELSE structure

\* Set with selector on tree comes to a scalar with segments left, at once
\* or under a pair of the key
RECURSIVE SetMeetsScalar(_, _)
SetMeetsScalar(selector, tree) ==
    /\ selector # <<>>
    /\ \/ IsScalar(tree)
       \/ \E j \in SameKeyAt(tree.p, selector[1]) :
             SetMeetsScalar(Tail(selector), tree.p[j][2])

\* Delete with selector on tree comes to a scalar with segments left (the
\* last segment removes pairs and descends into none)
RECURSIVE DeleteMeetsScalar(_, _)
DeleteMeetsScalar(selector, tree) ==
    /\ selector # <<>>
    /\ \/ IsScalar(tree)
       \/ /\ Len(selector) > 1
          /\ \E j \in SameKeyAt(tree.p, selector[1]) :
                DeleteMeetsScalar(Tail(selector), tree.p[j][2])

\* run number i was a Set or a Delete that came to a scalar
MetScalar(i) ==
    \/ log[i].cmd = "S" /\ SetMeetsScalar(log[i].selector, log[i].before)
    \/ log[i].cmd = "D" /\ DeleteMeetsScalar(log[i].selector, log[i].before)

\* C15: a Set or Delete with a non-empty selector that comes to a tree that
\* is neither an Array nor an Object, at top level or under a matched key,
\* raises the usage error, returns no tree and leaves the Query's structure
\* as it was.
EditOfScalarIsUsageError ==
    \A i \in 1..Len(log) :
        MetScalar(i) =>
            /\ log[i].ret = Raised("ValueError", "edit", -1)
            /\ After(i) = log[i].before

\* a Delete that met a scalar under a matched key, then a Set that met a
\* scalar in the structure the Delete left
DeleteThenSetMetScalar ==
    /\ Len(log) = 2
    /\ log[1].cmd = "D" /\ log[2].cmd = "S"
    /\ MetScalar(1) /\ MetScalar(2)
    /\ ~IsScalar(log[1].before)

-----------------------------------------------------------------------------
(* Properties of php_modify *)

\* C16: when the input is wire-valid and the editor applies the Set or
\* Delete expression without error, php_modify returns bytes that
\* php_unserialize accepts and that decode to the edited tree.
ModifyReturnsEncodingOfEditedTree ==
    pc = "modified" =>
        \A read \in {php_unserialize(arg.wire)} :
            read.ok =>
                \A ran \in {Query_run(arg.expression, read.v)} :
                    (ran.cmd \in {"S", "D"} /\ ran.ret.kind = "value") =>
                        /\ ret.kind = "bytes"
                        /\ php_unserialize(ret.out).ok
                        /\ php_unserialize(ret.out).v = ran.ret.v

-----------------------------------------------------------------------------
(* Properties of the type tags *)

\* The starts of wire texts after which the next byte must begin a value: a
\* header declaring pairs to come, followed by whole keys and values, fewer
\* than declared.
ValueStartPrefixes ==
    { <<"a", ":", "1", ":", "{">>,  \* a:1:{
      <<"a", ":", "2", ":", "{">>,  \* a:2:{
      <<"a", ":", "1", ":", "{", "i", ":", "0", ";">>,  \* a:1:{i:0;
      <<"a", ":", "1", ":", "{", "i", ":", "1", ";">>,  \* a:1:{i:1;
      <<"a", ":", "2", ":", "{", "i", ":", "0", ";">>,  \* a:2:{i:0;
      <<"O", ":", "1", ":", "\"", "A", "\"", ":", "1", ":", "{">>,  \* O:1:"A":1:{
      <<"a", ":", "2", ":", "{", "i", ":", "0", ";", "N", ";">>,  \* a:2:{i:0;N;
      <<"a", ":", "1", ":", "{", "i", ":", "1", ";", "a", ":", "1", ":", "{">>,  \* a:1:{i:1;a:1:{
      <<"a", ":", "2", ":", "{", "i", ":", "0", ";", "N", ";", "i", ":", "0", ";">>,  \* a:2:{i:0;N;i:0;
      <<"O", ":", "1", ":", "\"", "A", "\"", ":", "1", ":", "{", "s", ":", "1", ":", "\"", "a", "\"", ";">>,  \* O:1:"A":1:{s:1:"a";
      <<"a", ":", "1", ":", "{", "i", ":", "1", ";", "a", ":", "1", ":", "{", "d", ":", "1", ".", "0", ";">> }  \* a:1:{i:1;a:1:{d:1.0;

\* the type tags of the wire format
TypeTags == {"s", "i", "b", "N", "a", "O", "d"}

\* d begins with prefix and no type tag follows it
NoTagAfter(prefix, d) ==
    /\ Len(prefix) <= Len(d)
    /\ SubSeq(d, 1, Len(prefix)) = prefix
    /\ Len(d) > Len(prefix) => d[Len(prefix) + 1] \notin TypeTags

\* C17: when the byte where a value must start is not a type tag (at offset
\* 0, in empty input, at a key or a value inside an array or object),
\* php_unserialize raises ParseError with the offset of that byte and
\* returns no value.
UnknownTagIsParseErrorAtItsOffset ==
    pc = "unserialized" =>
        \A prefix \in {<<>>} \cup ValueStartPrefixes :
            NoTagAfter(prefix, data) =>
                ret = Raised("ParseError", "unserialize", Len(prefix))

\* php_unserialize met a byte that is no type tag where the value of a pair
\* inside a nested array must start
UnknownTagAtNestedValue ==
    /\ pc = "unserialized"
    /\ \E prefix \in ValueStartPrefixes :
          /\ Len(prefix) > 14
          /\ NoTagAfter(prefix, data)
          /\ Len(data) > Len(prefix)
          /\ ret.pos = Len(prefix)

-----------------------------------------------------------------------------
(* Properties of the empty selector *)

\* C18: with an empty selector Get returns the whole tree and Delete returns
\* the tree unchanged, for every tree, scalars included, and neither fails.
EmptySelectorReturnsTree ==
    \A i \in 1..Len(log) :
        (log[i].cmd \in {"G", "D"} /\ log[i].selector = <<>>) =>
            log[i].ret = ReturnValue(log[i].before)

\* a Get and a Delete with an empty selector ran on a scalar
EmptySelectorRanOnScalar ==
    /\ Len(log) = 2
    /\ log[1].cmd = "G" /\ log[2].cmd = "D"
    /\ log[1].selector = <<>> /\ log[2].selector = <<>>
    /\ log[1].before.t = "int"
    /\ log[2].ret.v = log[1].before

-----------------------------------------------------------------------------
(* Properties of the structure a Query stores *)

\* run number i was a Set that returned
SetReturned(i) == log[i].cmd = "S" /\ log[i].ret.kind = "value"

\* run number i was a Delete that returned and run i + 1 a Get with the same
\* selector
DeleteThenGet(i) ==
    /\ log[i].cmd = "D"
    /\ log[i].ret.kind = "value"
    /\ log[i + 1].cmd = "G"
    /\ log[i + 1].selector = log[i].selector

\* C19: on one Query a Get or Delete run leaves the stored structure as it
\* was and a Set run replaces it with the Set's result, so the stored
\* structure is the initial tree with the Sets applied in order; a Get that
\* follows a Delete of the same selector returns what it returns on the
\* structure the Delete was given.
StoredStructureFollowsSetsOnly ==
    Len(log) > 0 =>
        /\ log[1].before = arg.tree
        /\ \A i \in 1..Len(log) :
              After(i) = IF SetReturned(i) THEN log[i].ret.v ELSE log[i].before
        /\ \A i \in 1..(Len(log) - 1) :
              DeleteThenGet(i) =>
                  log[i + 1].ret = ReturnValue(Query_get(log[i].selector, log[i].before))

\* a Delete removed the pairs of a key and the Get of the same key that
\* followed returned a value that the Delete's result does not hold
GetAfterDeleteStillFindsValue ==
    /\ Len(log) = 2
    /\ DeleteThenGet(1)
    /\ log[1].ret.v # log[1].before
    /\ log[2].ret.v # PyNone
    /\ Query_get(log[1].selector, log[1].ret.v) = PyNone

-----------------------------------------------------------------------------
(* Properties of serializing, then unserializing *)

\* v is built only from bool, int, bytes, list and object nodes
RECURSIVE IsExactTree(_)
IsExactTree(v) ==
    /\ v.t \in {"bool", "int", "bytes", "list", "object"}
    /\ \A i \in 1..Len(v.p) : IsExactTree(v.p[i][1]) /\ IsExactTree(v.p[i][2])

\* C20: for every tree T of Bool, Int, Bytes, Array and Object nodes,
\* php_serialize(T) succeeds and php_unserialize(php_serialize(T)) is T, with
\* the same variant at every node and the same pair order.
SerializeThenUnserializeIsIdentity ==
    IsExactTree(arg.tree) =>
        /\ pc = "serialized" => ret.kind = "bytes"
        /\ pc = "read_back" => ret = ReturnValue(arg.tree)

\* an Array with a Bool key and an Int key was serialized and read back
ReadBackBoolAndIntKeys ==
    /\ pc = "read_back"
    /\ IsExactTree(arg.tree)
    /\ arg.tree.t = "list"
    /\ \E i, j \in 1..Len(arg.tree.p) :
          arg.tree.p[i][1].t = "bool" /\ arg.tree.p[j][1].t = "int"
    /\ ret.kind = "value"

-----------------------------------------------------------------------------
(* Properties of Delete, then Get *)

\* C21: when Delete(s, T) with a non-empty selector s succeeds,
\* Get(s, Delete(s, T)) is Null, and Delete(s, T) is T when the path was
\* absent from T.
GetOfDeletedPathIsNull ==
    \A i \in 1..Len(log) :
        (log[i].cmd = "D" /\ log[i].ret.kind = "value" /\ log[i].selector # <<>>) =>
            /\ Query_get(log[i].selector, log[i].ret.v) = PyNone
            /\ PathIsAbsent(log[i].selector, log[i].before) =>
                  log[i].ret.v = log[i].before

=============================================================================
